---- MODULE Spec2Model ----
(***************************************************************************)
(* Molecular-ion charge-state resolution of ifes_apt_tc_data_modeling:     *)
(* MolecularIonBuilder (utils/molecular_ions.py) and the nuclide hash      *)
(* helpers (utils/utils.py).                                               *)
(*                                                                         *)
(* Units of the model: masses and interval bounds in milli-Dalton,         *)
(* natural abundances in percent (a product of k abundances is the record  *)
(* [num, den] with den = 100^k), half-lives in days.  np.inf and np.nan    *)
(* are the two integers HL_INF and HL_NAN, handled as numpy handles them.  *)
(***************************************************************************)
EXTENDS Integers, Sequences, FiniteSets, TLC

VARIABLES
    parms,             \* MolecularIonBuilder.parms
    nuclids,           \* MolecularIonBuilder.nuclids (sorted descending)
    element_isotopes,  \* MolecularIonBuilder.element_isotopes
    nuclid_mass,       \* MolecularIonBuilder.nuclid_mass
    nuclid_abundance,  \* MolecularIonBuilder.nuclid_abundance
    nuclid_halflife,   \* MolecularIonBuilder.nuclid_halflife
    nuclid_stable,     \* MolecularIonBuilder.nuclid_stable
    nuclid_unclear,    \* MolecularIonBuilder.nuclid_unclear
    candidates,        \* MolecularIonBuilder.candidates
    relevant,          \* MolecularIonBuilder.relevant (dict, insertion order)
    ret,               \* outcome of the last combinatorics call
    arg,               \* arguments of the last combinatorics call
    hpc,               \* position of the hash round trip
    hin,               \* input of the hash round trip
    hout,              \* results of the hash round trip
    fpc,               \* position of a call of a utils.py function
    fin,               \* the function called and its arguments
    fout,              \* what the call returned or raised
    ion,               \* fields of one NxIon
    ion_raised,        \* exception raised by the last NxIon method call
    ion_calls          \* the add_range calls made on the NxIon, in order

vars == <<parms, nuclids, element_isotopes, nuclid_mass, nuclid_abundance,
          nuclid_halflife, nuclid_stable, nuclid_unclear, candidates, relevant,
          ret, arg, hpc, hin, hout, fpc, fin, fout, ion, ion_raised, ion_calls>>

builder_vars == <<parms, nuclids, element_isotopes, nuclid_mass,
                  nuclid_abundance, nuclid_halflife, nuclid_stable,
                  nuclid_unclear, candidates, relevant, ret, arg>>

hash_vars == <<hpc, hin, hout>>

util_vars == <<fpc, fin, fout>>

ion_vars == <<ion, ion_raised, ion_calls>>

(***************************************************************************)
(* Bounds and program constants                                            *)
(***************************************************************************)
\* longest composition the combinatorics action is called with
MaxDepth == 3

MAX_NUMBER_OF_ATOMS_PER_ION == 32

NEUTRON_NUMBER_FOR_ELEMENT == 255

APTMOLECULARION_MAX_CHARGE == 7

\* np.inf
HL_INF == 2147483647

\* np.nan
HL_NAN == -1

PRACTICAL_ABUNDANCE == [num |-> 0, den |-> 1]

PRACTICAL_ABUNDANCE_PRODUCT == [num |-> 0, den |-> 1]

PRACTICAL_MIN_HALF_LIFE == HL_INF

SACRIFICE_ISOTOPIC_UNIQUENESS == TRUE

(***************************************************************************)
(* Reference data consumed by the builder: ase atomic_numbers and          *)
(* chemical_symbols, the NIST isotope table and the half-lives of the      *)
(* radioactivedecay package, for hydrogen, beryllium, oxygen, chromium     *)
(* and technetium.                                                         *)
(***************************************************************************)
chemical_symbols == (1 :> "H") @@ (4 :> "Be") @@ (8 :> "O") @@ (24 :> "Cr")
                    @@ (43 :> "Tc")

atomic_numbers == DOMAIN chemical_symbols

isotopes ==
       (1 :> (  (1 :> [mass |-> 1008, composition |-> 100])
             @@ (2 :> [mass |-> 2014, composition |-> 1])
             @@ (3 :> [mass |-> 3016, composition |-> 0])
             @@ (4 :> [mass |-> 4026, composition |-> 0])))
    @@ (4 :> (  (7 :> [mass |-> 7017, composition |-> 0])
             @@ (9 :> [mass |-> 9012, composition |-> 100])
             @@ (10 :> [mass |-> 10014, composition |-> 0])))
    @@ (8 :> (  (16 :> [mass |-> 15995, composition |-> 100])
             @@ (17 :> [mass |-> 16999, composition |-> 1])
             @@ (18 :> [mass |-> 17999, composition |-> 1])))
    @@ (24 :> (  (50 :> [mass |-> 49946, composition |-> 4])
              @@ (51 :> [mass |-> 50945, composition |-> 0])
              @@ (52 :> [mass |-> 51941, composition |-> 84])
              @@ (53 :> [mass |-> 52941, composition |-> 10])
              @@ (54 :> [mass |-> 53939, composition |-> 2])))
    @@ (43 :> (  (97 :> [mass |-> 96906, composition |-> 0])
              @@ (98 :> [mass |-> 97907, composition |-> 0])
              @@ (99 :> [mass |-> 98906, composition |-> 0])
              @@ (100 :> [mass |-> 99908, composition |-> 0])))

\* rd.Nuclide(name).half_life(); a nuclide the package does not know is
\* absent from the domain (rd.Nuclide raises)
rd_half_life ==
       (<<1, 1>> :> HL_INF) @@ (<<1, 2>> :> HL_INF) @@ (<<1, 3>> :> 4500)
    @@ (<<4, 7>> :> 53) @@ (<<4, 9>> :> HL_INF) @@ (<<4, 10>> :> 551000000)
    @@ (<<8, 16>> :> HL_INF) @@ (<<8, 17>> :> HL_INF) @@ (<<8, 18>> :> HL_INF)
    @@ (<<24, 50>> :> HL_INF) @@ (<<24, 51>> :> 28) @@ (<<24, 52>> :> HL_INF)
    @@ (<<24, 53>> :> HL_INF) @@ (<<24, 54>> :> HL_INF)
    @@ (<<43, 97>> :> 1538000000) @@ (<<43, 98>> :> 1534000000)
    @@ (<<43, 99>> :> 77100000)

(***************************************************************************)
(* utils.py: nuclide hashes                                                *)
(***************************************************************************)
uint16(x) == x % 65536

isotope_to_hash(proton_number, neutron_number) ==
    IF 0 <= proton_number /\ proton_number < 256
       /\ 0 <= neutron_number /\ neutron_number < 256
    THEN uint16(uint16(proton_number) + uint16(256 * uint16(neutron_number)))
    ELSE 0

\* hash_to_isotope with "<" in place of "<=" at the upper end of uint16
hash_to_isotope_short_range(hashvalue) ==
    IF 0 <= hashvalue /\ hashvalue < 65535
    THEN LET neutron_number == uint16(uint16(hashvalue) \div 256)
             proton_number == uint16(uint16(hashvalue) - uint16(neutron_number * 256))
         IN <<proton_number, neutron_number>>
    ELSE <<0, 0>>

hash_to_isotope(hashvalue) ==
    IF 0 <= hashvalue /\ hashvalue <= 65535
    THEN LET neutron_number == uint16(uint16(hashvalue) \div 256)
             proton_number == uint16(uint16(hashvalue) - uint16(neutron_number * 256))
         IN <<proton_number, neutron_number>>
    ELSE <<0, 0>>

(***************************************************************************)
(* numpy helpers                                                           *)
(***************************************************************************)
\* position of the largest entry of a non-empty sequence (first on ties)
RECURSIVE argmax(_, _, _)
argmax(s, k, best) ==
    IF k > Len(s) THEN best
    ELSE argmax(s, k + 1, IF s[k] > s[best] THEN k ELSE best)

remove_at(s, k) == SubSeq(s, 1, k - 1) \o SubSeq(s, k + 1, Len(s))

\* np.sort(arr, kind="stable")[::-1]
RECURSIVE sort_descending(_)
sort_descending(s) ==
    IF Len(s) = 0 THEN <<>>
    ELSE LET k == argmax(s, 1, 1)
         IN <<s[k]>> \o sort_descending(remove_at(s, k))

RECURSIVE set_to_seq(_)
set_to_seq(S) ==
    IF S = {} THEN <<>>
    ELSE LET x == CHOOSE y \in S : \A z \in S : y <= z
         IN <<x>> \o set_to_seq(S \ {x})

\* np.min((a, b)): a NaN operand gives NaN
np_min(a, b) ==
    IF a = HL_NAN \/ b = HL_NAN THEN HL_NAN ELSE IF a <= b THEN a ELSE b

\* a >= b for two fractions [num, den] with positive denominators
frac_geq(a, b) == a.num * b.den >= b.num * a.den

zeros(n) == [k \in 1..n |-> 0]

(***************************************************************************)
(* molecular_ions.py: MolecularIonBuilder.__init__                         *)
(***************************************************************************)
\* __init__ without the test "half_life < min_half_life"
accepted_mass_numbers_any_half_life(atomic_number, min_half_life) ==
    {mass_number \in DOMAIN isotopes[atomic_number] :
        <<atomic_number, mass_number>> \in DOMAIN rd_half_life}

\* mass numbers of an element that survive the half-life test of __init__
accepted_mass_numbers(atomic_number, min_half_life) ==
    {mass_number \in DOMAIN isotopes[atomic_number] :
        /\ <<atomic_number, mass_number>> \in DOMAIN rd_half_life
        /\ LET half_life == rd_half_life[<<atomic_number, mass_number>>]
           IN \/ half_life = HL_INF
              \/ ~(half_life < min_half_life)}

element_hashes(atomic_number, min_half_life) ==
    LET mass_numbers == set_to_seq(accepted_mass_numbers(atomic_number, min_half_life))
    IN [k \in 1..Len(mass_numbers) |->
            isotope_to_hash(atomic_number, mass_numbers[k] - atomic_number)]

\* the element index without the final np.sort(...)[::-1]
init_element_isotopes_unsorted(min_half_life) ==
    [atomic_number \in atomic_numbers |-> element_hashes(atomic_number, min_half_life)]

init_element_isotopes(min_half_life) ==
    [atomic_number \in atomic_numbers |->
        sort_descending(element_hashes(atomic_number, min_half_life))]

init_nuclid_set(min_half_life) ==
    {isotope_to_hash(z, a - z) : <<z, a>> \in
        {za \in DOMAIN rd_half_life : za[2] \in accepted_mass_numbers(za[1], min_half_life)}}

init_nuclids(min_half_life) ==
    sort_descending(set_to_seq(init_nuclid_set(min_half_life)))

isotope_entry(hashvalue) ==
    LET pn == hash_to_isotope(hashvalue)
    IN isotopes[pn[1]][pn[1] + pn[2]]

init_nuclid_mass(min_half_life) ==
    [hashvalue \in init_nuclid_set(min_half_life) |-> isotope_entry(hashvalue).mass]

init_nuclid_abundance(min_half_life) ==
    [hashvalue \in init_nuclid_set(min_half_life) |-> isotope_entry(hashvalue).composition]

init_nuclid_halflife(min_half_life) ==
    [hashvalue \in init_nuclid_set(min_half_life) |->
        LET pn == hash_to_isotope(hashvalue)
        IN rd_half_life[<<pn[1], pn[1] + pn[2]>>]]

\* observationally_stable: np.isinf(half_life)
init_nuclid_stable(min_half_life) ==
    [hashvalue \in init_nuclid_set(min_half_life) |->
        init_nuclid_halflife(min_half_life)[hashvalue] = HL_INF]

\* unclear_half_life: set only behind the "continue" of an unknown nuclide
init_nuclid_unclear(min_half_life) ==
    [hashvalue \in init_nuclid_set(min_half_life) |-> FALSE]

(***************************************************************************)
(* molecular_ions.py: MolecularIonCandidate                                *)
(***************************************************************************)
MolecularIonCandidate(ivec, charge, mass_sum, nat_abun_prod, min_half_life) ==
    [isotope_vector |-> ivec, charge |-> charge, mass |-> mass_sum,
     abundance_product |-> nat_abun_prod, shortest_half_life |-> min_half_life]

\* "_".join of the decimal numbers of the non-zero entries from position k on
RECURSIVE join_nonzero(_, _, _)
join_nonzero(ivec, k, acc) ==
    IF k > Len(ivec) THEN acc
    ELSE IF ivec[k] = 0 THEN join_nonzero(ivec, k + 1, acc)
    ELSE join_nonzero(ivec, k + 1,
             IF acc = "" THEN ToString(ivec[k]) ELSE acc \o "_" \o ToString(ivec[k]))

isotope_vector_to_dict_keyword(ivec) ==
    LET joined == join_nonzero(ivec, 1, "")
    IN IF joined # "" THEN joined ELSE "0"

\* unique_keyword without the np.sort(...)[::-1] of the isotope vector
unique_keyword_unsorted(cand) ==
    isotope_vector_to_dict_keyword(cand.isotope_vector)
        \o "__" \o ToString(cand.charge)

unique_keyword(cand) ==
    isotope_vector_to_dict_keyword(sort_descending(cand.isotope_vector))
        \o "__" \o ToString(cand.charge)

(***************************************************************************)
(* molecular_ions.py: MolecularIonBuilder queries                          *)
(***************************************************************************)
get_element_isotopes(hashvalue) ==
    element_isotopes[hash_to_isotope(hashvalue)[1]]

RECURSIVE get_isotope_mass_sum(_)
get_isotope_mass_sum(nuclid_arr) ==
    IF Len(nuclid_arr) = 0 THEN 0
    ELSE get_isotope_mass_sum(SubSeq(nuclid_arr, 1, Len(nuclid_arr) - 1))
         + (IF nuclid_arr[Len(nuclid_arr)] # 0
            THEN nuclid_mass[nuclid_arr[Len(nuclid_arr)]] ELSE 0)

\* get_natural_abundance_product with one factor per distinct isotope
RECURSIVE get_natural_abundance_product_once(_)
get_natural_abundance_product_once(nuclid_arr) ==
    IF Len(nuclid_arr) = 0 THEN [num |-> 1, den |-> 1]
    ELSE LET front == SubSeq(nuclid_arr, 1, Len(nuclid_arr) - 1)
             prev == get_natural_abundance_product_once(front)
             hashvalue == nuclid_arr[Len(nuclid_arr)]
         IN IF hashvalue # 0 /\ \A k \in 1..Len(front) : front[k] # hashvalue
            THEN [num |-> prev.num * nuclid_abundance[hashvalue],
                  den |-> prev.den * 100]
            ELSE prev

RECURSIVE get_natural_abundance_product(_)
get_natural_abundance_product(nuclid_arr) ==
    IF Len(nuclid_arr) = 0 THEN [num |-> 1, den |-> 1]
    ELSE LET prev == get_natural_abundance_product(
                         SubSeq(nuclid_arr, 1, Len(nuclid_arr) - 1))
             hashvalue == nuclid_arr[Len(nuclid_arr)]
         IN IF hashvalue # 0
            THEN [num |-> prev.num * nuclid_abundance[hashvalue],
                  den |-> prev.den * 100]
            ELSE prev

\* the test "half-life != np.nan" of the source is true for every value,
\* so the loop never returns NaN early
RECURSIVE shortest_half_life_from(_, _, _)
shortest_half_life_from(nuclid_arr, k, min_half_life) ==
    IF k > Len(nuclid_arr) THEN min_half_life
    ELSE IF nuclid_arr[k] # 0
    THEN shortest_half_life_from(nuclid_arr, k + 1,
             np_min(min_half_life, nuclid_halflife[nuclid_arr[k]]))
    ELSE shortest_half_life_from(nuclid_arr, k + 1, min_half_life)

get_shortest_half_life(nuclid_arr) ==
    shortest_half_life_from(nuclid_arr, 1, parms.min_half_life)

(***************************************************************************)
(* molecular_ions.py: MolecularIonBuilder.iterate_molecular_ion            *)
(***************************************************************************)
\* mass / chrg < bound and mass / chrg > bound for a positive charge
ratio_below(mass, chrg, bound) == mass < bound * chrg

ratio_above(mass, chrg, bound) == mass > bound * chrg

\* charge_states with "break" in place of "continue" above the interval
RECURSIVE charge_states_break_above(_, _, _, _, _, _, _)
charge_states_break_above(cand_arr_curr, new_mass, new_abun_prod, new_halflife, new_chrg, low, high) ==
    IF new_chrg > APTMOLECULARION_MAX_CHARGE THEN <<>>
    ELSE IF ratio_below(new_mass, new_chrg, low) THEN <<>>
    ELSE IF ratio_above(new_mass, new_chrg, high) THEN <<>>
    ELSE <<MolecularIonCandidate(cand_arr_curr, new_chrg, new_mass,
                                 new_abun_prod, new_halflife)>>
         \o charge_states_break_above(cand_arr_curr, new_mass, new_abun_prod,
                                      new_halflife, new_chrg + 1, low, high)

\* charge_states without the test against the lower bound
RECURSIVE charge_states_no_lower_test(_, _, _, _, _, _, _)
charge_states_no_lower_test(cand_arr_curr, new_mass, new_abun_prod, new_halflife, new_chrg, low, high) ==
    IF new_chrg > APTMOLECULARION_MAX_CHARGE THEN <<>>
    ELSE IF ratio_above(new_mass, new_chrg, high)
    THEN charge_states_no_lower_test(cand_arr_curr, new_mass, new_abun_prod,
                                     new_halflife, new_chrg + 1, low, high)
    ELSE <<MolecularIonCandidate(cand_arr_curr, new_chrg, new_mass,
                                 new_abun_prod, new_halflife)>>
         \o charge_states_no_lower_test(cand_arr_curr, new_mass, new_abun_prod,
                                        new_halflife, new_chrg + 1, low, high)

\* charge_states that leaves the loop after the first candidate
charge_states_first_only(cand_arr_curr, new_mass, new_abun_prod, new_halflife, new_chrg, low, high) ==
    LET hits == {c \in new_chrg..APTMOLECULARION_MAX_CHARGE :
                    ~ratio_below(new_mass, c, low) /\ ~ratio_above(new_mass, c, high)}
    IN IF hits = {} THEN <<>>
       ELSE <<MolecularIonCandidate(cand_arr_curr,
                  CHOOSE c \in hits : \A d \in hits : c <= d,
                  new_mass, new_abun_prod, new_halflife)>>

\* charge_states with the loop "for new_chrg in np.arange(1, 9)"
RECURSIVE charge_states_to_eight(_, _, _, _, _, _, _)
charge_states_to_eight(cand_arr_curr, new_mass, new_abun_prod, new_halflife, new_chrg, low, high) ==
    IF new_chrg > APTMOLECULARION_MAX_CHARGE + 1 THEN <<>>
    ELSE IF ratio_below(new_mass, new_chrg, low) THEN <<>>
    ELSE IF ratio_above(new_mass, new_chrg, high)
    THEN charge_states_to_eight(cand_arr_curr, new_mass, new_abun_prod,
                                new_halflife, new_chrg + 1, low, high)
    ELSE <<MolecularIonCandidate(cand_arr_curr, new_chrg, new_mass,
                                 new_abun_prod, new_halflife)>>
         \o charge_states_to_eight(cand_arr_curr, new_mass, new_abun_prod,
                                   new_halflife, new_chrg + 1, low, high)

\* the candidates appended by the loop "for new_chrg in np.arange(1, 8)"
\* from new_chrg on
RECURSIVE charge_states(_, _, _, _, _, _, _)
charge_states(cand_arr_curr, new_mass, new_abun_prod, new_halflife, new_chrg, low, high) ==
    IF new_chrg > APTMOLECULARION_MAX_CHARGE THEN <<>>
    ELSE IF ratio_below(new_mass, new_chrg, low) THEN <<>>
    ELSE IF ratio_above(new_mass, new_chrg, high)
    THEN charge_states(cand_arr_curr, new_mass, new_abun_prod,
                       new_halflife, new_chrg + 1, low, high)
    ELSE <<MolecularIonCandidate(cand_arr_curr, new_chrg, new_mass,
                                 new_abun_prod, new_halflife)>>
         \o charge_states(cand_arr_curr, new_mass, new_abun_prod,
                          new_halflife, new_chrg + 1, low, high)

RECURSIVE iterate_molecular_ion(_, _, _, _, _, _, _)
RECURSIVE iterate_nuclids(_, _, _, _, _, _, _, _)

\* the candidates appended by the loop "for nuclid in jth_nuclids" from
\* position k on; i is the 0-based slot of the source, element_arr[i + 2]
\* its element_arr[i + 1]
iterate_nuclids(element_arr, jth_nuclids, k, cand_arr_prev, i, max_n, low, high) ==
    IF k > Len(jth_nuclids) THEN <<>>
    ELSE LET cand_arr_curr == Append(cand_arr_prev, jth_nuclids[k])
             appended ==
                 IF i < max_n - 1
                 THEN iterate_molecular_ion(element_arr,
                          get_element_isotopes(element_arr[i + 2]),
                          cand_arr_curr, i + 1, max_n, low, high)
                 ELSE charge_states(cand_arr_curr,
                          get_isotope_mass_sum(cand_arr_curr),
                          get_natural_abundance_product(cand_arr_curr),
                          get_shortest_half_life(cand_arr_curr),
                          1, low, high)
         IN appended \o iterate_nuclids(element_arr, jth_nuclids, k + 1,
                                        cand_arr_prev, i, max_n, low, high)

\* the candidates one call appends to self.candidates, in order
iterate_molecular_ion(element_arr, jth_nuclids, cand_arr_prev, i, max_n, low, high) ==
    IF i <= max_n - 1
    THEN iterate_nuclids(element_arr, jth_nuclids, 1, cand_arr_prev,
                         i, max_n, low, high)
    ELSE <<>>

(***************************************************************************)
(* molecular_ions.py: try_to_reduce_to_unique_solution                     *)
(***************************************************************************)
\* is_relevant without the abundance threshold
is_relevant_no_threshold(cand) ==
    /\ cand.shortest_half_life # HL_NAN
    /\ cand.shortest_half_life >= parms.min_half_life

\* is_relevant with ">" in place of ">=" on the abundance product
is_relevant_strict(cand) ==
    /\ ~frac_geq(parms.min_abundance_product, cand.abundance_product)
    /\ cand.shortest_half_life # HL_NAN
    /\ cand.shortest_half_life >= parms.min_half_life

is_relevant(cand) ==
    /\ frac_geq(cand.abundance_product, parms.min_abundance_product)
    /\ cand.shortest_half_life # HL_NAN
    /\ cand.shortest_half_life >= parms.min_half_life

\* the dict built by "if keyword not in self.relevant.keys():
\* self.relevant[keyword] = cand" over the candidates order[lo..hi], as the
\* map from each keyword to the candidate index stored under it: the left
\* operand of @@ wins, so a keyword keeps the first index inserted
RECURSIVE first_insertion(_, _, _, _)
first_insertion(keyword, order, lo, hi) ==
    IF lo = hi THEN keyword[order[lo]] :> order[lo]
    ELSE LET mid == (lo + hi) \div 2
         IN first_insertion(keyword, order, lo, mid)
            @@ first_insertion(keyword, order, mid + 1, hi)

\* self.relevant after the loop over self.candidates, in insertion order
filter_relevant(cands) ==
    LET keyword == [k \in 1..Len(cands) |-> unique_keyword(cands[k])]
        is_passing(k) == is_relevant(cands[k])
        passing == SelectSeq([k \in 1..Len(cands) |-> k], is_passing)
        stored == first_insertion(keyword, passing, 1, Len(passing))
        is_stored(k) == stored[keyword[k]] = k
        kept == IF Len(passing) = 0 THEN <<>> ELSE SelectSeq(passing, is_stored)
    IN [r \in 1..Len(kept) |->
            [keyword |-> keyword[kept[r]], cand |-> cands[kept[r]]]]

returned(charge, relevant_candidates) ==
    [status |-> "ok", charge |-> charge, relevant_candidates |-> relevant_candidates]

\* unique_solution that asks for sacrifice_isotopic_uniqueness also when
\* one candidate is relevant
unique_solution_flag_on_single(rel) ==
    LET relevant_candidates == [j \in 1..Len(rel) |-> rel[j].cand]
    IN IF Len(rel) = 0 THEN returned(0, relevant_candidates)
       ELSE IF \E j \in 1..Len(rel) : rel[j].cand.charge # rel[1].cand.charge
       THEN returned(0, relevant_candidates)
       ELSE IF parms.sacrifice_isotopic_uniqueness = TRUE
       THEN returned(rel[1].cand.charge, relevant_candidates)
       ELSE returned(0, relevant_candidates)

\* unique_solution that never reads sacrifice_isotopic_uniqueness
unique_solution_flag_ignored(rel) ==
    LET relevant_candidates == [j \in 1..Len(rel) |-> rel[j].cand]
    IN IF Len(rel) = 0 THEN returned(0, relevant_candidates)
       ELSE IF \E j \in 1..Len(rel) : rel[j].cand.charge # rel[1].cand.charge
       THEN returned(0, relevant_candidates)
       ELSE returned(rel[1].cand.charge, relevant_candidates)

\* unique_solution that does not compare the charges of the candidates
unique_solution_first_charge(rel) ==
    LET relevant_candidates == [j \in 1..Len(rel) |-> rel[j].cand]
    IN IF Len(rel) = 0 THEN returned(0, relevant_candidates)
       ELSE IF Len(rel) = 1 THEN returned(rel[1].cand.charge, relevant_candidates)
       ELSE IF parms.sacrifice_isotopic_uniqueness = TRUE
       THEN returned(rel[1].cand.charge, relevant_candidates)
       ELSE returned(0, relevant_candidates)

\* the decision on the filled self.relevant
unique_solution(rel) ==
    LET relevant_candidates == [j \in 1..Len(rel) |-> rel[j].cand]
    IN IF Len(rel) = 0 THEN returned(0, relevant_candidates)
       ELSE IF Len(rel) = 1 THEN returned(rel[1].cand.charge, relevant_candidates)
       ELSE LET charge == rel[1].cand.charge
            IN IF \E j \in 1..Len(rel) : rel[j].cand.charge # charge
               THEN returned(0, relevant_candidates)
               ELSE IF parms.sacrifice_isotopic_uniqueness = TRUE
               THEN returned(charge, relevant_candidates)
               ELSE returned(0, relevant_candidates)

try_to_reduce_to_unique_solution(cands) ==
    LET rel == filter_relevant(cands)
    IN [relevant |-> rel, ret |-> unique_solution(rel)]

(***************************************************************************)
(* molecular_ions.py: MolecularIonBuilder.combinatorics                    *)
(***************************************************************************)
count_nonzero(element_arr) ==
    Cardinality({k \in 1..Len(element_arr) : element_arr[k] # 0})

\* combinatorics without "self.candidates = []"
combinatorics_no_reset(self_candidates, self_relevant, element_arr, low, high) ==
    IF \E k \in 1..Len(element_arr) : hash_to_isotope(element_arr[k])[2] # 0
    THEN [candidates |-> self_candidates, relevant |-> self_relevant,
          ret |-> [status |-> "AssertionError", charge |-> 0,
                   relevant_candidates |-> <<>>]]
    ELSE LET max_depth == count_nonzero(element_arr)
         IN IF max_depth > 0
            THEN LET found == self_candidates \o iterate_molecular_ion(element_arr,
                                  get_element_isotopes(element_arr[1]),
                                  <<>>, 0, max_depth, low, high)
                     reduced == try_to_reduce_to_unique_solution(found)
                 IN [candidates |-> found, relevant |-> reduced.relevant,
                     ret |-> reduced.ret]
            ELSE [candidates |-> self_candidates, relevant |-> self_relevant,
                  ret |-> returned(0, <<>>)]

\* combinatorics without the test "max_depth > 0" around the search
combinatorics_no_depth_test(self_candidates, self_relevant, element_arr, low, high) ==
    IF \E k \in 1..Len(element_arr) : hash_to_isotope(element_arr[k])[2] # 0
    THEN [candidates |-> self_candidates, relevant |-> self_relevant,
          ret |-> [status |-> "AssertionError", charge |-> 0,
                   relevant_candidates |-> <<>>]]
    ELSE LET max_depth == count_nonzero(element_arr)
             found == IF max_depth > 0
                      THEN iterate_molecular_ion(element_arr,
                               get_element_isotopes(element_arr[1]),
                               <<>>, 0, max_depth, low, high)
                      ELSE <<>>
             reduced == try_to_reduce_to_unique_solution(found)
         IN [candidates |-> found, relevant |-> reduced.relevant, ret |-> reduced.ret]

\* the builder's candidates and relevant fields and the outcome of the call,
\* from the fields before the call and the arguments
combinatorics(self_candidates, self_relevant, element_arr, low, high) ==
    IF \E k \in 1..Len(element_arr) : hash_to_isotope(element_arr[k])[2] # 0
    THEN [candidates |-> self_candidates, relevant |-> self_relevant,
          ret |-> [status |-> "AssertionError", charge |-> 0,
                   relevant_candidates |-> <<>>]]
    ELSE LET max_depth == count_nonzero(element_arr)
         IN IF max_depth > 0
            THEN LET found == <<>> \o iterate_molecular_ion(element_arr,
                                  get_element_isotopes(element_arr[1]),
                                  <<>>, 0, max_depth, low, high)
                     reduced == try_to_reduce_to_unique_solution(found)
                 IN [candidates |-> found, relevant |-> reduced.relevant,
                     ret |-> reduced.ret]
            ELSE [candidates |-> <<>>, relevant |-> self_relevant,
                  ret |-> returned(0, <<>>)]

(***************************************************************************)
(* utils.py: human-readable ion names                                      *)
(***************************************************************************)
RECURSIVE repeat(_, _)
repeat(str, n) == IF n <= 0 THEN "" ELSE str \o repeat(str, n - 1)

RECURSIVE atom_labels(_, _)
atom_labels(ivec, k) ==
    IF k > Len(ivec) THEN ""
    ELSE IF ivec[k] = 0 THEN atom_labels(ivec, k + 1)
    ELSE LET pn == hash_to_isotope(ivec[k])
             label == IF 0 < pn[2] /\ pn[2] < 255
                      THEN ToString(pn[1] + pn[2]) \o chemical_symbols[pn[1]]
                      ELSE chemical_symbols[pn[1]]
         IN label \o " " \o atom_labels(ivec, k + 1)

\* str.rstrip() of a string made of atom labels each followed by one space
rstrip(str) == IF str = "" THEN "" ELSE SubSeq(str, 1, Len(str) - 1)

nuclide_hash_to_human_readable_name(ivec, charge_state) ==
    IF Len(ivec) <= MAX_NUMBER_OF_ATOMS_PER_ION /\ -8 < charge_state /\ charge_state < 8
    THEN LET labels == atom_labels(ivec, 1)
             human_readable ==
                 IF 0 < charge_state /\ charge_state < 8
                 THEN labels \o repeat("+", charge_state)
                 ELSE IF -8 < charge_state /\ charge_state < 0
                 THEN labels \o repeat("-", -charge_state)
                 ELSE rstrip(labels)
         IN IF human_readable # "" THEN human_readable ELSE "unknown_iontype"
    ELSE "unknown_iontype"

(***************************************************************************)
(* utils.py: significance of a mass-to-charge interval.  The bounds of the *)
(* intervals of an NxIon are in micro-Dalton.                              *)
(***************************************************************************)
\* np.float64(1.0 / 2000.0) Da
MQ_EPSILON == 500

\* is_range_significant with ">" in place of ">="
is_range_significant_open(left, right) ==
    IF 0 <= left /\ 0 <= right
    THEN IF (right - left) > MQ_EPSILON THEN TRUE ELSE FALSE
    ELSE FALSE

is_range_significant(left, right) ==
    IF 0 <= left /\ 0 <= right
    THEN IF (right - left) >= MQ_EPSILON THEN TRUE ELSE FALSE
    ELSE FALSE

(***************************************************************************)
(* utils.py: compositions from building blocks ("Cr", "Tc-99")             *)
(***************************************************************************)
\* ase.data.atomic_numbers: symbol -> proton number, "X" -> 0
symbol_to_proton_number ==
    [symbol \in {chemical_symbols[z] : z \in atomic_numbers} \cup {"X"} |->
        IF symbol = "X" THEN 0
        ELSE CHOOSE z \in atomic_numbers : chemical_symbols[z] = symbol]

\* str.count("-")
count_dash(block) == Cardinality({k \in 1..Len(block) : SubSeq(block, k, k) = "-"})

\* block.split("-") of a block with one "-"
split_dash(block) ==
    LET k == CHOOSE j \in 1..Len(block) : SubSeq(block, j, j) = "-"
    IN <<SubSeq(block, 1, k - 1), SubSeq(block, k + 1, Len(block))>>

digit_value ==
    ("0" :> 0) @@ ("1" :> 1) @@ ("2" :> 2) @@ ("3" :> 3) @@ ("4" :> 4)
    @@ ("5" :> 5) @@ ("6" :> 6) @@ ("7" :> 7) @@ ("8" :> 8) @@ ("9" :> 9)

\* int(str) raises ValueError unless str is a decimal number
is_decimal(str) ==
    /\ Len(str) > 0
    /\ \A k \in 1..Len(str) : SubSeq(str, k, k) \in DOMAIN digit_value

RECURSIVE int(_)
int(str) ==
    IF Len(str) = 0 THEN 0
    ELSE 10 * int(SubSeq(str, 1, Len(str) - 1)) + digit_value[SubSeq(str, Len(str), Len(str))]

\* the loop over the building blocks from block k on: "ok" at its end,
\* "return" where it returns ivec early, "ValueError" where int() raises
RECURSIVE nuclide_hashvector(_, _, _)
nuclide_hashvector(building_blocks, k, hashvector) ==
    IF k > Len(building_blocks) THEN [status |-> "ok", hashvector |-> hashvector]
    ELSE LET block == building_blocks[k]
         IN IF block = "" THEN nuclide_hashvector(building_blocks, k + 1, hashvector)
            ELSE IF count_dash(block) = 0
            THEN IF block \notin DOMAIN symbol_to_proton_number \/ block = "X"
                 THEN [status |-> "return", hashvector |-> hashvector]
                 ELSE nuclide_hashvector(building_blocks, k + 1,
                          Append(hashvector, isotope_to_hash(symbol_to_proton_number[block],
                                                             NEUTRON_NUMBER_FOR_ELEMENT)))
            ELSE IF count_dash(block) = 1
            THEN LET symb_mass == split_dash(block)
                 IN IF symb_mass[1] \notin DOMAIN symbol_to_proton_number \/ symb_mass[1] = "X"
                    THEN [status |-> "return", hashvector |-> hashvector]
                    ELSE IF ~is_decimal(symb_mass[2])
                    THEN [status |-> "ValueError", hashvector |-> hashvector]
                    ELSE LET proton_number == symbol_to_proton_number[symb_mass[1]]
                             mass_number == int(symb_mass[2])
                             neutron_number == mass_number - proton_number
                         IN IF proton_number \in DOMAIN isotopes
                               /\ mass_number \in DOMAIN isotopes[proton_number]
                            THEN nuclide_hashvector(building_blocks, k + 1,
                                     Append(hashvector,
                                            isotope_to_hash(proton_number, neutron_number)))
                            ELSE nuclide_hashvector(building_blocks, k + 1, hashvector)
            ELSE nuclide_hashvector(building_blocks, k + 1, hashvector)

\* ivec[0 : len(hashvector)] = hashvector
write_front(ivec, hashvector) ==
    [k \in 1..Len(ivec) |-> IF k <= Len(hashvector) THEN hashvector[k] ELSE ivec[k]]

\* create_nuclide_hash that writes the hashes as they come
create_nuclide_hash_unsorted(building_blocks) ==
    LET ivec == zeros(MAX_NUMBER_OF_ATOMS_PER_ION)
    IN IF 0 < Len(building_blocks) /\ Len(building_blocks) <= MAX_NUMBER_OF_ATOMS_PER_ION
       THEN LET walked == nuclide_hashvector(building_blocks, 1, <<>>)
            IN IF walked.status = "ValueError" THEN [status |-> "ValueError", value |-> ivec]
               ELSE IF walked.status = "return" THEN [status |-> "ok", value |-> ivec]
               ELSE [status |-> "ok", value |-> write_front(ivec, walked.hashvector)]
       ELSE [status |-> "ok", value |-> ivec]

create_nuclide_hash(building_blocks) ==
    LET ivec == zeros(MAX_NUMBER_OF_ATOMS_PER_ION)
    IN IF 0 < Len(building_blocks) /\ Len(building_blocks) <= MAX_NUMBER_OF_ATOMS_PER_ION
       THEN LET walked == nuclide_hashvector(building_blocks, 1, <<>>)
            IN IF walked.status = "ValueError" THEN [status |-> "ValueError", value |-> ivec]
               ELSE IF walked.status = "return" THEN [status |-> "ok", value |-> ivec]
               ELSE [status |-> "ok",
                     value |-> write_front(ivec, sort_descending(walked.hashvector))]
       ELSE [status |-> "ok", value |-> ivec]

(***************************************************************************)
(* utils.py of the older module: create_isotope_vector, where an element   *)
(* is the hash with neutron number 0 and invalid input fails an assertion  *)
(***************************************************************************)
RECURSIVE isotope_hashvector(_, _, _)
isotope_hashvector(building_blocks, k, hashvector) ==
    IF k > Len(building_blocks) THEN [status |-> "ok", hashvector |-> hashvector]
    ELSE LET block == building_blocks[k]
         IN IF block = "" THEN [status |-> "AssertionError", hashvector |-> hashvector]
            ELSE IF count_dash(block) = 0
            THEN IF ~(block \in DOMAIN symbol_to_proton_number /\ block # "X")
                 THEN [status |-> "AssertionError", hashvector |-> hashvector]
                 ELSE isotope_hashvector(building_blocks, k + 1,
                          Append(hashvector, isotope_to_hash(symbol_to_proton_number[block], 0)))
            ELSE IF count_dash(block) = 1
            THEN LET symb_mass == split_dash(block)
                 IN IF ~(symb_mass[1] \in DOMAIN symbol_to_proton_number /\ symb_mass[1] # "X")
                    THEN [status |-> "AssertionError", hashvector |-> hashvector]
                    ELSE IF ~is_decimal(symb_mass[2])
                    THEN [status |-> "ValueError", hashvector |-> hashvector]
                    ELSE LET proton_number == symbol_to_proton_number[symb_mass[1]]
                             mass_number == int(symb_mass[2])
                             neutron_number == mass_number - proton_number
                         IN IF ~(proton_number \in DOMAIN isotopes)
                            THEN [status |-> "AssertionError", hashvector |-> hashvector]
                            ELSE IF ~(mass_number \in DOMAIN isotopes[proton_number])
                            THEN [status |-> "AssertionError", hashvector |-> hashvector]
                            ELSE isotope_hashvector(building_blocks, k + 1,
                                     Append(hashvector,
                                            isotope_to_hash(proton_number, neutron_number)))
            ELSE [status |-> "return", hashvector |-> hashvector]

create_isotope_vector(building_blocks) ==
    LET ivec == zeros(MAX_NUMBER_OF_ATOMS_PER_ION)
    IN IF ~(Len(building_blocks) <= MAX_NUMBER_OF_ATOMS_PER_ION)
       THEN [status |-> "AssertionError", value |-> ivec]
       ELSE IF Len(building_blocks) = 0 THEN [status |-> "ok", value |-> ivec]
       ELSE LET walked == isotope_hashvector(building_blocks, 1, <<>>)
            IN IF walked.status \in {"AssertionError", "ValueError"}
               THEN [status |-> walked.status, value |-> ivec]
               ELSE IF walked.status = "return" THEN [status |-> "ok", value |-> ivec]
               ELSE [status |-> "ok",
                     value |-> write_front(ivec, sort_descending(walked.hashvector))]

(***************************************************************************)
(* nexus/nx_ion.py: NxIon                                                  *)
(***************************************************************************)
\* rows (mass number, proton number); the mass number only for an isotope
nuclide_hash_to_nuclide_list(ivec) ==
    IF Len(ivec) = MAX_NUMBER_OF_ATOMS_PER_ION
    THEN [idx \in 1..MAX_NUMBER_OF_ATOMS_PER_ION |->
            IF ivec[idx] # 0
            THEN LET pn == hash_to_isotope(ivec[idx])
                 IN <<IF 0 < pn[2] /\ pn[2] < 255 THEN pn[1] + pn[2] ELSE 0, pn[1]>>
            ELSE <<0, 0>>]
    ELSE [idx \in 1..MAX_NUMBER_OF_ATOMS_PER_ION |-> <<0, 0>>]

\* NxIon(nuclide_hash=nuclide_hash, charge_state=charge_state) with a vector
\* of 32 hashes and an integer charge state in -7..7
NxIon(nuclide_hash, charge_state) ==
    [charge_state_model |-> <<>>,
     nuclide_hash |-> nuclide_hash,
     nuclide_list |-> nuclide_hash_to_nuclide_list(nuclide_hash),
     charge_state |-> charge_state,
     name |-> nuclide_hash_to_human_readable_name(nuclide_hash, charge_state),
     ranges |-> <<>>]

\* add_range without the test of is_range_significant
add_range_unchecked(self, mqmin, mqmax) ==
    [self |-> [self EXCEPT !.ranges = Append(self.ranges, <<mqmin, mqmax>>)],
     raised |-> "none"]

\* the ion after the call and the exception the call raised
add_range(self, mqmin, mqmax) ==
    IF is_range_significant(mqmin, mqmax) = FALSE
    THEN [self |-> self, raised |-> "ValueError"]
    ELSE [self |-> [self EXCEPT !.ranges = Append(self.ranges, <<mqmin, mqmax>>)],
          raised |-> "none"]

(***************************************************************************)
(* Inputs                                                                  *)
(***************************************************************************)
MinHalfLifeChoices == {HL_INF, 1000}

MinAbundanceProductChoices == {PRACTICAL_ABUNDANCE_PRODUCT, [num |-> 9, den |-> 10]}

\* [low, high] in milli-Dalton
Intervals == {<<0, 10000>>, <<5000, 17000>>, <<57819, 61159>>}

is_descending(s) == \A k \in 1..(Len(s) - 1) : s[k] >= s[k + 1]

\* "Be": one atom of any element
AtomicIons == {<<isotope_to_hash(z, 0)>> : z \in atomic_numbers}

\* "Cr Cr O": up to MaxDepth atoms of oxygen and chromium, also none, laid
\* out as create_isotope_vector does (hashes descending)
MolecularIons ==
    {s \in UNION {[1..n -> {isotope_to_hash(8, 0), isotope_to_hash(24, 0)}] :
                     n \in 0..MaxDepth} : is_descending(s)}

ElementCompositions == AtomicIons \cup MolecularIons

\* create_nuclide_hash(["H"]): an element token with the neutron number 255
SentinelCompositions == {<<isotope_to_hash(1, NEUTRON_NUMBER_FOR_ELEMENT)>>}

\* create_nuclide_hash(["H-2"]): an isotope token, a concrete nuclide hash
ExplicitCompositions == {<<isotope_to_hash(1, 1)>>}

Compositions == ElementCompositions \cup SentinelCompositions \cup ExplicitCompositions

pad(s) == s \o zeros(MAX_NUMBER_OF_ATOMS_PER_ION - Len(s))

\* combinatorics(element_arr, low, high): a call with no atom or with a
\* sentinel or isotope token returns before it reads the interval, one stands
\* for all of them
Calls ==
    ((ElementCompositions \ {<<>>}) \X Intervals)
        \cup ((SentinelCompositions \cup ExplicitCompositions \cup {<<>>})
                  \X {<<0, 10000>>})

(***************************************************************************)
(* State machine of one MolecularIonBuilder                                *)
(***************************************************************************)
NoCall == [status |-> "none", charge |-> 0, relevant_candidates |-> <<>>]

NoArg == [element_arr |-> zeros(MAX_NUMBER_OF_ATOMS_PER_ION), low |-> 0, high |-> 0]

HashIdle == [kind |-> "none", p |-> 0, n |-> 0, h |-> 0]

NoHash == [hash |-> 0, isotope |-> <<0, 0>>]

\* no utils.py function under call
UtilsIdle ==
    /\ fpc = "idle"
    /\ fin = [fn |-> "none", args |-> <<>>]
    /\ fout = [status |-> "none", value |-> 0]

\* no NxIon under consideration
IonIdle ==
    /\ ion = NxIon(zeros(MAX_NUMBER_OF_ATOMS_PER_ION), 0)
    /\ ion_raised = "none"
    /\ ion_calls = <<>>

\* MolecularIonBuilder(min_abundance, min_abundance_product, min_half_life,
\*                     sacrifice_uniqueness, verbose)
Constructed(min_abundance, min_abundance_product, min_half_life, sacrifice_uniqueness) ==
    /\ parms = [min_abundance |-> min_abundance,
                min_abundance_product |-> min_abundance_product,
                min_half_life |-> min_half_life,
                sacrifice_isotopic_uniqueness |-> sacrifice_uniqueness,
                verbose |-> FALSE]
    /\ nuclids = init_nuclids(min_half_life)
    /\ element_isotopes = init_element_isotopes(min_half_life)
    /\ nuclid_mass = init_nuclid_mass(min_half_life)
    /\ nuclid_abundance = init_nuclid_abundance(min_half_life)
    /\ nuclid_halflife = init_nuclid_halflife(min_half_life)
    /\ nuclid_stable = init_nuclid_stable(min_half_life)
    /\ nuclid_unclear = init_nuclid_unclear(min_half_life)
    /\ candidates = <<>>
    /\ relevant = <<>>
    /\ ret = NoCall
    /\ arg = NoArg

Init ==
    /\ \E min_abundance_product \in MinAbundanceProductChoices,
          min_half_life \in MinHalfLifeChoices,
          sacrifice_uniqueness \in BOOLEAN :
            Constructed(PRACTICAL_ABUNDANCE, min_abundance_product,
                        min_half_life, sacrifice_uniqueness)
    /\ hpc = "idle"
    /\ hin = HashIdle
    /\ hout = NoHash
    /\ UtilsIdle
    /\ IonIdle

\* a combinatorics that resets self.nuclids with the per-call fields
CombinatoricsResettingNuclids ==
    \E composition \in Compositions, interval \in Intervals :
        /\ <<composition, interval>> \in Calls
        /\ \E after \in {combinatorics(candidates, relevant, pad(composition),
                                       interval[1], interval[2])} :
              /\ candidates' = after.candidates
              /\ relevant' = after.relevant
              /\ ret' = after.ret
              /\ arg' = [element_arr |-> pad(composition), low |-> interval[1],
                         high |-> interval[2]]
              /\ nuclids' = <<>>
              /\ UNCHANGED <<parms, element_isotopes, nuclid_mass,
                             nuclid_abundance, nuclid_halflife, nuclid_stable,
                             nuclid_unclear>>
              /\ UNCHANGED <<hash_vars, util_vars, ion_vars>>

Combinatorics ==
    \E composition \in Compositions, interval \in Intervals :
        /\ <<composition, interval>> \in Calls
        /\ \E after \in {combinatorics(candidates, relevant, pad(composition),
                                       interval[1], interval[2])} :
              /\ candidates' = after.candidates
              /\ relevant' = after.relevant
              /\ ret' = after.ret
              /\ arg' = [element_arr |-> pad(composition), low |-> interval[1],
                         high |-> interval[2]]
              /\ UNCHANGED <<parms, nuclids, element_isotopes, nuclid_mass,
                             nuclid_abundance, nuclid_halflife, nuclid_stable,
                             nuclid_unclear>>
              /\ UNCHANGED <<hash_vars, util_vars, ion_vars>>

Next == Combinatorics

Spec == Init /\ [][Next]_vars

(***************************************************************************)
(* Round trips of the nuclide hash                                         *)
(***************************************************************************)
InitHash ==
    /\ Constructed(PRACTICAL_ABUNDANCE, PRACTICAL_ABUNDANCE_PRODUCT,
                   PRACTICAL_MIN_HALF_LIFE, SACRIFICE_ISOTOPIC_UNIQUENESS)
    /\ hpc = "start"
    /\ \/ \E p \in 0..255, n \in 0..255 :
             hin = [kind |-> "encode", p |-> p, n |-> n, h |-> 0]
       \/ \E h \in 0..65535 :
             hin = [kind |-> "decode", p |-> 0, n |-> 0, h |-> h]
    /\ hout = NoHash
    /\ UtilsIdle
    /\ IonIdle

\* isotope_to_hash, then hash_to_isotope of its result
EncodeDecode ==
    /\ hpc = "start"
    /\ hin.kind = "encode"
    /\ LET hashvalue == isotope_to_hash(hin.p, hin.n)
       IN hout' = [hash |-> hashvalue, isotope |-> hash_to_isotope(hashvalue)]
    /\ hpc' = "done"
    /\ UNCHANGED hin
    /\ UNCHANGED <<builder_vars, util_vars, ion_vars>>

\* hash_to_isotope, then isotope_to_hash of its result
DecodeEncode ==
    /\ hpc = "start"
    /\ hin.kind = "decode"
    /\ LET pn == hash_to_isotope(hin.h)
       IN hout' = [hash |-> isotope_to_hash(pn[1], pn[2]), isotope |-> pn]
    /\ hpc' = "done"
    /\ UNCHANGED hin
    /\ UNCHANGED <<builder_vars, util_vars, ion_vars>>

NextHash == EncodeDecode \/ DecodeEncode

SpecHash == InitHash /\ [][NextHash]_vars

(***************************************************************************)
(* Calls of the functions of utils.py                                      *)
(***************************************************************************)
\* bounds of the intervals is_range_significant is called with, micro-Dalton
SignificanceBounds == {-500, 0, 499, 500, 501, 1000, 1500}

SignificanceCalls ==
    {[fn |-> "is_range_significant", args |-> <<left, right>>] :
        left \in SignificanceBounds, right \in SignificanceBounds}

\* longest list of building blocks, the one too long for an ion aside
MaxBlocks == 2

\* elements, isotopes, an isotope the table does not hold, unknown symbols,
\* the empty string, two dashes, a mass number that is no number
BlockTokens == {"H", "O", "Tc-99", "H-2", "H-9", "Zz", "X", "", "H-2-1", "H-x"}

BuildingBlockLists ==
    UNION {[1..n -> BlockTokens] : n \in 0..MaxBlocks}
        \cup {[k \in 1..(MAX_NUMBER_OF_ATOMS_PER_ION + 1) |-> "O"]}

CompositionCalls ==
    {[fn |-> fn, args |-> <<building_blocks>>] :
        fn \in {"create_nuclide_hash", "create_isotope_vector"},
        building_blocks \in BuildingBlockLists}

\* compositions that get a name: none, "H", "Tc-99" with "O", "Cr Cr O"
NamedCompositions ==
    {create_nuclide_hash(building_blocks).value :
        building_blocks \in {<<>>, <<"H">>, <<"Tc-99", "O">>}}
        \cup {pad(<<24, 24, 8>>)}

NameCalls ==
    {[fn |-> "nuclide_hash_to_human_readable_name", args |-> <<ivec, charge_state>>] :
        ivec \in NamedCompositions, charge_state \in -9..9}

UtilsCalls == SignificanceCalls \cup CompositionCalls \cup NameCalls

InitUtils ==
    /\ Constructed(PRACTICAL_ABUNDANCE, PRACTICAL_ABUNDANCE_PRODUCT,
                   PRACTICAL_MIN_HALF_LIFE, SACRIFICE_ISOTOPIC_UNIQUENESS)
    /\ hpc = "idle"
    /\ hin = HashIdle
    /\ hout = NoHash
    /\ fpc = "start"
    /\ fin \in UtilsCalls
    /\ fout = [status |-> "none", value |-> 0]
    /\ IonIdle

IsRangeSignificant ==
    /\ fpc = "start"
    /\ fin.fn = "is_range_significant"
    /\ fout' = [status |-> "ok",
                value |-> is_range_significant(fin.args[1], fin.args[2])]
    /\ fpc' = "done"
    /\ UNCHANGED fin
    /\ UNCHANGED <<builder_vars, hash_vars, ion_vars>>

CreateNuclideHash ==
    /\ fpc = "start"
    /\ fin.fn = "create_nuclide_hash"
    /\ fout' = create_nuclide_hash(fin.args[1])
    /\ fpc' = "done"
    /\ UNCHANGED fin
    /\ UNCHANGED <<builder_vars, hash_vars, ion_vars>>

CreateIsotopeVector ==
    /\ fpc = "start"
    /\ fin.fn = "create_isotope_vector"
    /\ fout' = create_isotope_vector(fin.args[1])
    /\ fpc' = "done"
    /\ UNCHANGED fin
    /\ UNCHANGED <<builder_vars, hash_vars, ion_vars>>

HumanReadableName ==
    /\ fpc = "start"
    /\ fin.fn = "nuclide_hash_to_human_readable_name"
    /\ fout' = [status |-> "ok",
                value |-> nuclide_hash_to_human_readable_name(fin.args[1], fin.args[2])]
    /\ fpc' = "done"
    /\ UNCHANGED fin
    /\ UNCHANGED <<builder_vars, hash_vars, ion_vars>>

NextUtils ==
    \/ IsRangeSignificant
    \/ CreateNuclideHash
    \/ CreateIsotopeVector
    \/ HumanReadableName

SpecUtils == InitUtils /\ [][NextUtils]_vars

(***************************************************************************)
(* One NxIon and the add_range calls made on it                            *)
(***************************************************************************)
\* most add_range calls made on one ion
MaxRangeCalls == 3

\* building blocks of the ions
IonBuildingBlocks == {<<>>, <<"H">>, <<"Tc-99">>, <<"Cr", "Cr", "O">>}

\* (mqmin, mqmax) of the add_range calls, micro-Dalton
RangeCalls ==
    {<<0, 10000000>>, <<12000000, 12000500>>, <<12000000, 12000499>>,
     <<12000000, 12000000>>, <<12000500, 12000000>>, <<-1000, 5000000>>}

InitIon ==
    /\ Constructed(PRACTICAL_ABUNDANCE, PRACTICAL_ABUNDANCE_PRODUCT,
                   PRACTICAL_MIN_HALF_LIFE, SACRIFICE_ISOTOPIC_UNIQUENESS)
    /\ hpc = "idle"
    /\ hin = HashIdle
    /\ hout = NoHash
    /\ UtilsIdle
    /\ \E building_blocks \in IonBuildingBlocks, charge_state \in {0, 1} :
          ion = NxIon(create_nuclide_hash(building_blocks).value, charge_state)
    /\ ion_raised = "none"
    /\ ion_calls = <<>>

AddRange ==
    /\ Len(ion_calls) < MaxRangeCalls
    /\ \E interval \in RangeCalls :
          \E after \in {add_range(ion, interval[1], interval[2])} :
             /\ ion' = after.self
             /\ ion_raised' = after.raised
             /\ ion_calls' = Append(ion_calls, interval)
    /\ UNCHANGED <<builder_vars, hash_vars, util_vars>>

NextIon == AddRange

SpecIon == InitIon /\ [][NextIon]_vars

(***************************************************************************)
(* nexus/nx_ion.py: NxIon.apply_combinatorics and add_charge_state_model   *)
(***************************************************************************)
\* the builder works in milli-Dalton, the ranges of an ion are in
\* micro-Dalton
milli(mq) == mq \div 1000

req_parms == {"min_abundance", "min_abundance_product", "min_half_life",
              "sacrifice_isotopic_uniqueness"}

\* the ion after the call and the exception the call raised; a
\* MolecularIonCandidate has the attributes isotope_vector and charge, so
\* reading cand.nuclide_hash raises AttributeError
add_charge_state_model(self, parameters, cands) ==
    IF ~(req_parms \subseteq DOMAIN parameters)
    THEN [self |-> [self EXCEPT !.charge_state_model = <<>>], raised |-> "ValueError"]
    ELSE LET counted == ("n_cand" :> 0) @@ parameters
             n_cand == Len(cands)
             rows == [row_idx \in 1..n_cand |-> 0]
         IN IF n_cand = 0
            THEN [self |-> [self EXCEPT !.charge_state_model = counted],
                  raised |-> "none"]
            ELSE IF n_cand = 1
            THEN [self |-> [self EXCEPT !.charge_state_model =
                                ("n_cand" :> n_cand) @@ counted],
                  raised |-> "AttributeError"]
            ELSE [self |-> [self EXCEPT !.charge_state_model =
                                ("n_cand" :> n_cand)
                                @@ ("nuclide_hash" :>
                                       [row_idx \in 1..n_cand |->
                                           zeros(MAX_NUMBER_OF_ATOMS_PER_ION)])
                                @@ ("charge_state" :> rows)
                                @@ ("mass" :> rows)
                                @@ ("natural_abundance_product" :> rows)
                                @@ ("shortest_half_life" :> rows)
                                @@ counted],
                  raised |-> "AttributeError"]

practical_parameters ==
    [min_abundance |-> PRACTICAL_ABUNDANCE,
     min_abundance_product |-> PRACTICAL_ABUNDANCE_PRODUCT,
     min_half_life |-> PRACTICAL_MIN_HALF_LIFE,
     sacrifice_isotopic_uniqueness |-> SACRIFICE_ISOTOPIC_UNIQUENESS]

\* a crawler that has not run combinatorics
new_crawler == [candidates |-> <<>>, relevant |-> <<>>, ret |-> NoCall, arg |-> NoArg]

\* apply_combinatorics that reads the last row of self.ranges
apply_combinatorics_last_range(self) ==
    IF Len(self.ranges) = 0
    THEN [self |-> self, raised |-> "IndexError", crawler |-> new_crawler]
    ELSE LET low == milli(self.ranges[Len(self.ranges)][1])
             high == milli(self.ranges[Len(self.ranges)][2])
             after == combinatorics(<<>>, <<>>, self.nuclide_hash, low, high)
             crawler == [candidates |-> after.candidates, relevant |-> after.relevant,
                         ret |-> after.ret,
                         arg |-> [element_arr |-> self.nuclide_hash,
                                  low |-> low, high |-> high]]
         IN IF after.ret.status = "AssertionError"
            THEN [self |-> self, raised |-> "AssertionError", crawler |-> crawler]
            ELSE LET named == [self EXCEPT
                                  !.charge_state = after.ret.charge,
                                  !.name = nuclide_hash_to_human_readable_name(
                                               self.nuclide_hash, after.ret.charge)]
                     attached == add_charge_state_model(named, practical_parameters,
                                                        after.candidates)
                 IN [self |-> attached.self, raised |-> attached.raised,
                     crawler |-> crawler]

\* the ion after the call, the exception the call raised and the fields of
\* the crawler the call made: the builder is constructed with the
\* PRACTICAL_ parameters and run on the first row of self.ranges
apply_combinatorics(self) ==
    IF Len(self.ranges) = 0
    THEN [self |-> self, raised |-> "IndexError", crawler |-> new_crawler]
    ELSE LET low == milli(self.ranges[1][1])
             high == milli(self.ranges[1][2])
             after == combinatorics(<<>>, <<>>, self.nuclide_hash, low, high)
             crawler == [candidates |-> after.candidates, relevant |-> after.relevant,
                         ret |-> after.ret,
                         arg |-> [element_arr |-> self.nuclide_hash,
                                  low |-> low, high |-> high]]
         IN IF after.ret.status = "AssertionError"
            THEN [self |-> self, raised |-> "AssertionError", crawler |-> crawler]
            ELSE LET named == [self EXCEPT
                                  !.charge_state = after.ret.charge,
                                  !.name = nuclide_hash_to_human_readable_name(
                                               self.nuclide_hash, after.ret.charge)]
                     attached == add_charge_state_model(named, practical_parameters,
                                                        after.candidates)
                 IN [self |-> attached.self, raised |-> attached.raised,
                     crawler |-> crawler]

(***************************************************************************)
(* One NxIon, the add_range calls and the apply_combinatorics calls made   *)
(* on it; the builder fields are those of the crawler of the last call     *)
(***************************************************************************)
\* nuclide_hash of the ions: oxygen and "Cr Cr O" with the neutron number 0
\* the builder takes for an element, hydrogen, 1H and 99Tc with oxygen as
\* create_nuclide_hash makes them, and the default ion
IonHashes ==
    {pad(<<isotope_to_hash(8, 0)>>),
     pad(<<isotope_to_hash(24, 0), isotope_to_hash(24, 0), isotope_to_hash(8, 0)>>),
     create_nuclide_hash(<<"H">>).value,
     create_nuclide_hash(<<"H-1">>).value,
     create_nuclide_hash(<<"Tc-99", "O">>).value,
     create_nuclide_hash(<<>>).value}

\* (mqmin, mqmax) of the add_range calls, micro-Dalton
ApplyRangeCalls ==
    {<<0, 10000000>>, <<15000000, 17000000>>, <<57819000, 61159000>>,
     <<12000000, 12000499>>}

InitApply ==
    /\ Constructed(PRACTICAL_ABUNDANCE, PRACTICAL_ABUNDANCE_PRODUCT,
                   PRACTICAL_MIN_HALF_LIFE, SACRIFICE_ISOTOPIC_UNIQUENESS)
    /\ hpc = "idle"
    /\ hin = HashIdle
    /\ hout = NoHash
    /\ UtilsIdle
    /\ \E nuclide_hash \in IonHashes : ion = NxIon(nuclide_hash, 0)
    /\ ion_raised = "none"
    /\ ion_calls = <<>>

AddApplyRange ==
    /\ Len(ion_calls) < MaxRangeCalls
    /\ \E interval \in ApplyRangeCalls :
          \E after \in {add_range(ion, interval[1], interval[2])} :
             /\ ion' = after.self
             /\ ion_raised' = after.raised
             /\ ion_calls' = Append(ion_calls, interval)
    /\ UNCHANGED <<builder_vars, hash_vars, util_vars>>

ApplyCombinatorics ==
    /\ \E after \in {apply_combinatorics(ion)} :
          /\ ion' = after.self
          /\ ion_raised' = after.raised
          /\ candidates' = after.crawler.candidates
          /\ relevant' = after.crawler.relevant
          /\ ret' = after.crawler.ret
          /\ arg' = after.crawler.arg
    /\ UNCHANGED <<parms, nuclids, element_isotopes, nuclid_mass,
                   nuclid_abundance, nuclid_halflife, nuclid_stable,
                   nuclid_unclear>>
    /\ UNCHANGED <<ion_calls, hash_vars, util_vars>>

NextApply == AddApplyRange \/ ApplyCombinatorics

SpecApply == InitApply /\ [][NextApply]_vars

(***************************************************************************)
(* One builder per policy and the get_element_isotopes queries made on it  *)
(***************************************************************************)
\* min_abundance of the constructor: the callers' value and the default
MinAbundanceChoices == {PRACTICAL_ABUNDANCE, [num |-> 1, den |-> 1000000]}

\* hashes handed to get_element_isotopes: each element with neutron number
\* 0, 1 and 255, and the empty slot
ElementQueries ==
    {isotope_to_hash(z, n) : z \in atomic_numbers, n \in {0, 1, NEUTRON_NUMBER_FOR_ELEMENT}}
        \cup {0}

InitTable ==
    /\ \E min_abundance \in MinAbundanceChoices,
          min_abundance_product \in MinAbundanceProductChoices,
          min_half_life \in MinHalfLifeChoices,
          sacrifice_uniqueness \in BOOLEAN :
            Constructed(min_abundance, min_abundance_product,
                        min_half_life, sacrifice_uniqueness)
    /\ hpc = "idle"
    /\ hin = HashIdle
    /\ hout = NoHash
    /\ UtilsIdle
    /\ IonIdle

\* a dict lookup with a key the dict does not hold raises KeyError
GetElementIsotopes ==
    /\ \E hashvalue \in ElementQueries :
          /\ fin' = [fn |-> "get_element_isotopes", args |-> <<hashvalue>>]
          /\ fout' = IF hash_to_isotope(hashvalue)[1] \in DOMAIN element_isotopes
                     THEN [status |-> "ok", value |-> get_element_isotopes(hashvalue)]
                     ELSE [status |-> "KeyError", value |-> 0]
    /\ fpc' = "done"
    /\ UNCHANGED <<builder_vars, hash_vars, ion_vars>>

NextTable == GetElementIsotopes

SpecTable == InitTable /\ [][NextTable]_vars

(***************************************************************************)
(* Vocabulary of the properties                                            *)
(***************************************************************************)
\* the last call ran the search and the resolver
Resolved == ret.status = "ok" /\ count_nonzero(arg.element_arr) > 0

Depth == count_nonzero(arg.element_arr)

DefaultPolicy ==
    /\ parms.min_abundance = PRACTICAL_ABUNDANCE
    /\ parms.min_abundance_product = PRACTICAL_ABUNDANCE_PRODUCT
    /\ parms.min_half_life = PRACTICAL_MIN_HALF_LIFE

CalledWith(composition, low, high) ==
    /\ ret.status = "ok"
    /\ arg = [element_arr |-> pad(composition), low |-> low, high |-> high]

Range(s) == {s[k] : k \in 1..Len(s)}

\* eligible isotopes of the element of slot i of the last call
SlotIsotopes(i) == Range(element_isotopes[hash_to_isotope(arg.element_arr[i])[1]])

\* all ways to take one eligible isotope per slot, slots 1..n
RECURSIVE IsotopeCombinations(_)
IsotopeCombinations(n) ==
    IF n = 0 THEN {<<>>}
    ELSE {Append(s, h) : s \in IsotopeCombinations(n - 1), h \in SlotIsotopes(n)}

RECURSIVE TotalMass(_)
TotalMass(s) == IF s = <<>> THEN 0 ELSE nuclid_mass[Head(s)] + TotalMass(Tail(s))

\* low <= mass / c <= high
InInterval(mass, c) == arg.low * c <= mass /\ mass <= arg.high * c

Charges == 1..7

Emitted == {<<candidates[k].isotope_vector, candidates[k].charge>> : k \in 1..Len(candidates)}

RelevantCharges == {relevant[r].cand.charge : r \in 1..Len(relevant)}

RelevantCandidates == [r \in 1..Len(relevant) |-> relevant[r].cand]

\* m_ion.name after apply_combinatorics: the composition with the resolved charge
IonName == nuclide_hash_to_human_readable_name(arg.element_arr, ret.charge)

IonNameWithoutCharge == nuclide_hash_to_human_readable_name(arg.element_arr, 0)

(***************************************************************************)
(* C1: after a combinatorics call on a composition with at least one       *)
(* non-empty slot, the raw candidate list holds exactly the pairs (isotope *)
(* combination, charge) with one eligible isotope per slot, charge in 1..7 *)
(* and low <= mass/charge <= high, each pair once.                         *)
(***************************************************************************)
C1_ExactCandidates ==
    Resolved =>
        /\ Emitted = {<<s, c>> \in IsotopeCombinations(Depth) \X Charges :
                          InInterval(TotalMass(s), c)}
        /\ Cardinality(Emitted) = Len(candidates)

\* a combination whose charge 1 lies above the interval, whose charge 2 is
\* emitted and whose charge 3 lies below the interval
C1_Witness ==
    /\ Resolved
    /\ Depth >= 2
    /\ \E k \in 1..Len(candidates) :
          /\ candidates[k].charge = 2
          /\ candidates[k].mass > arg.high
          /\ candidates[k].mass < 3 * arg.low

(***************************************************************************)
(* C2: monotonic charge pruning.  If charge c puts an emitted combination  *)
(* below low, no candidate of that combination has a charge above c; a     *)
(* charge above high does not end the loop: a later charge inside the      *)
(* interval is still emitted.                                              *)
(***************************************************************************)
C2_ChargePruning ==
    Resolved =>
        /\ \A k \in 1..Len(candidates), c \in Charges :
              TotalMass(candidates[k].isotope_vector) < arg.low * c
                  => ~(candidates[k].charge > c)
        /\ \A s \in IsotopeCombinations(Depth), c \in Charges, d \in Charges :
              (c < d /\ TotalMass(s) > arg.high * c /\ InInterval(TotalMass(s), d))
                  => <<s, d>> \in Emitted

C2_Witness ==
    /\ Resolved
    /\ \E s \in IsotopeCombinations(Depth) :
          /\ TotalMass(s) > arg.high
          /\ InInterval(TotalMass(s), 2)
          /\ TotalMass(s) < arg.low * 3
          /\ <<s, 2>> \in Emitted

(***************************************************************************)
(* C3: when exactly one candidate is relevant, the call returns that       *)
(* candidate's charge, a value in 1..7, with the one-element relevant      *)
(* list, whatever sacrifice_isotopic_uniqueness is; Be in [5.0, 17.0]      *)
(* under the default thresholds resolves to charge 1, name "Be +".         *)
(***************************************************************************)
C3_SingleRelevant ==
    /\ (Resolved /\ Len(relevant) = 1) =>
          /\ ret.charge = relevant[1].cand.charge
          /\ ret.charge \in Charges
          /\ ret.relevant_candidates = <<relevant[1].cand>>
    /\ (DefaultPolicy /\ CalledWith(<<4>>, 5000, 17000)) =>
          /\ Len(relevant) = 1
          /\ ret.charge = 1
          /\ IonName = "Be +"

C3_Witness ==
    /\ DefaultPolicy
    /\ parms.sacrifice_isotopic_uniqueness = FALSE
    /\ CalledWith(<<4>>, 5000, 17000)
    /\ Len(relevant) = 1
    /\ ret.charge = 1

(***************************************************************************)
(* C4: when two or more relevant candidates all have one charge c, the     *)
(* resolved charge state is c if sacrifice_isotopic_uniqueness is true and *)
(* 0 if it is false; Cr Cr O in [57.819, 61.159] has several relevant      *)
(* isotope combinations, all of charge 2, and is named "Cr Cr O ++" with   *)
(* the flag set.                                                           *)
(***************************************************************************)
C4_SharedCharge ==
    /\ (Resolved /\ Len(relevant) >= 2 /\ Cardinality(RelevantCharges) = 1) =>
          /\ parms.sacrifice_isotopic_uniqueness => ret.charge = relevant[1].cand.charge
          /\ ~parms.sacrifice_isotopic_uniqueness => ret.charge = 0
    /\ (DefaultPolicy /\ CalledWith(<<24, 24, 8>>, 57819, 61159)) =>
          /\ Len(relevant) >= 2
          /\ RelevantCharges = {2}
          /\ parms.sacrifice_isotopic_uniqueness
                => (ret.charge = 2 /\ IonName = "Cr Cr O ++")
          /\ ~parms.sacrifice_isotopic_uniqueness => ret.charge = 0

C4_Witness ==
    /\ DefaultPolicy
    /\ parms.sacrifice_isotopic_uniqueness
    /\ CalledWith(<<24, 24, 8>>, 57819, 61159)
    /\ Len(relevant) >= 2
    /\ ret.charge = 2

(***************************************************************************)
(* C5: whenever two relevant candidates differ in charge, the resolved     *)
(* charge state is 0 whatever sacrifice_isotopic_uniqueness is, the full   *)
(* relevant list is returned and the name has no charge suffix; H in       *)
(* [0.0, 10.0] is named "H".                                               *)
(***************************************************************************)
C5_DifferentCharges ==
    /\ (Resolved /\ Cardinality(RelevantCharges) >= 2) =>
          /\ ret.charge = 0
          /\ ret.relevant_candidates = RelevantCandidates
          /\ IonName = IonNameWithoutCharge
    /\ CalledWith(<<1>>, 0, 10000) =>
          /\ Cardinality(RelevantCharges) >= 2
          /\ IonName = "H"

C5_Witness ==
    /\ parms.sacrifice_isotopic_uniqueness
    /\ CalledWith(<<1>>, 0, 10000)
    /\ Cardinality(RelevantCharges) >= 2
    /\ ret.charge = 0
    /\ Len(ret.relevant_candidates) >= 2

(***************************************************************************)
(* C6 as stated: H in [0.0, 10.0] under the default policy resolves to     *)
(* charge state 1.                                                         *)
(***************************************************************************)
C6_HydrogenResolvesToOne ==
    (DefaultPolicy /\ parms.sacrifice_isotopic_uniqueness
        /\ CalledWith(<<1>>, 0, 10000)) => ret.charge = 1

(***************************************************************************)
(* C6 amended: H in [0.0, 10.0] under the default policy resolves to       *)
(* charge state 0: with low = 0 no charge is pruned, every stable hydrogen *)
(* isotope is relevant at each charge 1..7, and the charges differ.        *)
(***************************************************************************)
C6_HydrogenUnresolved ==
    (DefaultPolicy /\ parms.sacrifice_isotopic_uniqueness
        /\ CalledWith(<<1>>, 0, 10000)) =>
            /\ ret.charge = 0
            /\ RelevantCharges = Charges

C6_Witness ==
    /\ DefaultPolicy
    /\ parms.sacrifice_isotopic_uniqueness
    /\ CalledWith(<<1>>, 0, 10000)
    /\ ret.charge = 0
    /\ Len(candidates) = 14

(***************************************************************************)
(* C7: whenever no candidate is relevant the call returns charge state 0   *)
(* and an empty list, however many raw candidates there are: when          *)
(* min_abundance_product exceeds the abundance product of every raw        *)
(* candidate, and when an element has no eligible isotope, so that there   *)
(* is no raw candidate (Tc under the default policy, named "Tc").          *)
(***************************************************************************)
C7_NothingRelevant ==
    /\ (Resolved /\ Len(relevant) = 0) =>
          (ret.charge = 0 /\ ret.relevant_candidates = <<>>)
    /\ (Resolved /\ \A k \in 1..Len(candidates) :
                       ~frac_geq(candidates[k].abundance_product,
                                 parms.min_abundance_product)) =>
          (Len(relevant) = 0 /\ ret.charge = 0 /\ ret.relevant_candidates = <<>>)
    /\ (Resolved /\ \E i \in 1..Depth : SlotIsotopes(i) = {}) =>
          /\ candidates = <<>>
          /\ ret.charge = 0
          /\ ret.relevant_candidates = <<>>
          /\ IonName = IonNameWithoutCharge
    /\ \A interval \in Intervals :
          (DefaultPolicy /\ CalledWith(<<43>>, interval[1], interval[2])) =>
              (ret.charge = 0 /\ IonName = "Tc")

\* raw candidates exist and all of them are below the threshold
C7_Witness ==
    /\ Resolved
    /\ Len(candidates) >= 2
    /\ \A k \in 1..Len(candidates) :
          ~frac_geq(candidates[k].abundance_product, parms.min_abundance_product)
    /\ ret.charge = 0
    /\ ret.relevant_candidates = <<>>

(***************************************************************************)
(* C8: a raw candidate is relevant, up to deduplication, iff its           *)
(* abundance_product >= min_abundance_product and its shortest_half_life   *)
(* is not NaN and >= min_half_life; nothing that fails a test is returned. *)
(***************************************************************************)
PassesThresholds(cand) ==
    /\ cand.abundance_product.num * parms.min_abundance_product.den
           >= parms.min_abundance_product.num * cand.abundance_product.den
    /\ cand.shortest_half_life # HL_NAN
    /\ cand.shortest_half_life >= parms.min_half_life

Occurrences(s, x) == Cardinality({k \in 1..Len(s) : s[k] = x})

\* same charge and the same isotopes up to their order
SameIon(a, b) ==
    /\ a.charge = b.charge
    /\ Len(a.isotope_vector) = Len(b.isotope_vector)
    /\ \A x \in Range(a.isotope_vector) :
          Occurrences(a.isotope_vector, x) = Occurrences(b.isotope_vector, x)

C8_RelevantIffPasses ==
    Resolved =>
        /\ \A k \in 1..Len(candidates) :
              PassesThresholds(candidates[k])
                  <=> \E r \in 1..Len(relevant) : SameIon(relevant[r].cand, candidates[k])
        /\ \A r \in 1..Len(relevant) :
              /\ PassesThresholds(relevant[r].cand)
              /\ relevant[r].cand \in Range(candidates)
        /\ \A j \in 1..Len(ret.relevant_candidates) :
              PassesThresholds(ret.relevant_candidates[j])

\* some raw candidates pass and others fail, and deduplication has merged
\* raw candidates that differ only in the order of their isotopes
C8_Witness ==
    /\ Resolved
    /\ \E k \in 1..Len(candidates) : ~PassesThresholds(candidates[k])
    /\ \E k \in 1..Len(candidates) : PassesThresholds(candidates[k])
    /\ Len(relevant) >= 1
    /\ \E j, k \in 1..Len(candidates) :
          j # k /\ SameIon(candidates[j], candidates[k])

C10_HashRoundTrip ==
    hpc = "done" =>
        /\ hin.kind = "encode" =>
              /\ hout.hash = hin.p + 256 * hin.n
              /\ hout.isotope = <<hin.p, hin.n>>
        /\ hin.kind = "decode" =>
              /\ hout.hash = hin.h
              /\ hout.isotope[1] \in 0..255
              /\ hout.isotope[2] \in 0..255

C10_Witness ==
    /\ hpc = "done"
    /\ hin.kind = "decode"
    /\ hin.h = 65535
    /\ hout.isotope = <<255, 255>>
    /\ hout.hash = 65535

WideEnough(interval) ==
    interval[1] >= 0 /\ interval[2] >= 0 /\ interval[2] - interval[1] >= 500

C12_OnlySignificantRanges ==
    /\ ion.ranges = SelectSeq(ion_calls, WideEnough)
    /\ \A k \in 1..Len(ion.ranges) : WideEnough(ion.ranges[k])
    /\ ion_calls # <<>> =>
          (ion_raised = "ValueError" <=> ~WideEnough(ion_calls[Len(ion_calls)]))
    /\ ion_raised \in {"none", "ValueError"}

\* a rejected call between two accepted ones
C12_Witness ==
    /\ Len(ion_calls) = 3
    /\ WideEnough(ion_calls[1])
    /\ ~WideEnough(ion_calls[2])
    /\ ion_calls[3] = <<12000000, 12000500>>
    /\ ion.ranges = <<ion_calls[1], ion_calls[3]>>
    /\ ion_raised = "none"

(***************************************************************************)
(* C13: a combinatorics call with a composition of 32 zeros returns charge *)
(* state 0 and an empty list without raising, and neither the search nor   *)
(* the resolver runs: no candidate is generated and the relevant set of    *)
(* the builder stays as the call found it.                                 *)
(***************************************************************************)
C13_EmptyComposition ==
    [][(arg'.element_arr = zeros(MAX_NUMBER_OF_ATOMS_PER_ION) /\ ret'.status # "none") =>
          /\ ret'.status = "ok"
          /\ ret'.charge = 0
          /\ ret'.relevant_candidates = <<>>
          /\ candidates' = <<>>
          /\ relevant' = relevant]_vars

\* an empty composition after a call that left relevant candidates
C13_Witness ==
    /\ arg.element_arr = zeros(MAX_NUMBER_OF_ATOMS_PER_ION)
    /\ ret = returned(0, <<>>)
    /\ candidates = <<>>
    /\ Len(relevant) >= 2

(***************************************************************************)
(* C14 as stated: combinatorics accepts a composition whose slot is an     *)
(* explicit isotope token ("H-1", "H-2", encoded by create_nuclide_hash)   *)
(* and every candidate holds exactly that isotope in that slot.            *)
(***************************************************************************)
ExplicitTokens == {<<"H-1">>, <<"H-2">>}

NonZero(hashvalue) == hashvalue # 0

C14_ExplicitIsotopeKept ==
    \A building_blocks \in ExplicitTokens :
        (ret.status # "none"
            /\ arg.element_arr = create_nuclide_hash(building_blocks).value) =>
                /\ ret.status = "ok"
                /\ \A k \in 1..Len(candidates) :
                      candidates[k].isotope_vector = SelectSeq(arg.element_arr, NonZero)

(***************************************************************************)
(* C15 as stated: create_nuclide_hash and create_isotope_vector, given an  *)
(* unknown element symbol, more than 32 building blocks or an isotope      *)
(* token that the isotope table does not hold, signal an error (raise, or  *)
(* return the composition without any atom); they never return a           *)
(* composition that lacks the offending token and keeps the other atoms.   *)
(***************************************************************************)
UnknownSymbolTokens == {"Zz", "X"}

AbsentIsotopeTokens == {"H-9"}

Offending(building_blocks) ==
    \/ Len(building_blocks) > 32
    \/ \E k \in 1..Len(building_blocks) :
          building_blocks[k] \in UnknownSymbolTokens \cup AbsentIsotopeTokens

C15_InvalidInputFailsFast ==
    (fpc = "done" /\ fin.fn \in {"create_nuclide_hash", "create_isotope_vector"}
        /\ Offending(fin.args[1])) =>
            \/ fout.status # "ok"
            \/ fout.value = zeros(32)

(***************************************************************************)
(* C16: whenever create_nuclide_hash returns, the vector has exactly 32    *)
(* uint16 entries sorted in descending order, so the non-zero slots are    *)
(* contiguous from the front and followed only by zeros, and there are as  *)
(* many non-zero slots as accepted building blocks.                        *)
(***************************************************************************)
AcceptedTokens == {"H", "O", "Tc-99", "H-2"}

\* blocks the returned composition stands for: none when the list is empty,
\* too long or holds an unknown symbol
AcceptedBlocks(building_blocks) ==
    IF Len(building_blocks) = 0 \/ Len(building_blocks) > 32
       \/ \E k \in 1..Len(building_blocks) : building_blocks[k] \in UnknownSymbolTokens
    THEN 0
    ELSE Cardinality({k \in 1..Len(building_blocks) : building_blocks[k] \in AcceptedTokens})

SpacedLabels ==
    (create_nuclide_hash(<<"H">>).value :> "H")
    @@ (create_nuclide_hash(<<"Tc-99", "O">>).value :> "O 99Tc")
    @@ (pad(<<24, 24, 8>>) :> "Cr Cr O")

Signs(sign) ==
    <<sign, sign \o sign, sign \o sign \o sign, sign \o sign \o sign \o sign,
      sign \o sign \o sign \o sign \o sign,
      sign \o sign \o sign \o sign \o sign \o sign,
      sign \o sign \o sign \o sign \o sign \o sign \o sign>>

C17_NameFormat ==
    (fpc = "done" /\ fin.fn = "nuclide_hash_to_human_readable_name") =>
        LET ivec == fin.args[1]
            c == fin.args[2]
        IN IF c >= 8 \/ c <= -8 \/ ivec = zeros(32)
           THEN fout.value = "unknown_iontype"
           ELSE IF c >= 1 THEN fout.value = SpacedLabels[ivec] \o " " \o Signs("+")[c]
           ELSE IF c <= -1 THEN fout.value = SpacedLabels[ivec] \o " " \o Signs("-")[-c]
           ELSE fout.value = SpacedLabels[ivec]

(***************************************************************************)
(* C18 as stated: combinatorics accepts a composition that                 *)
(* create_nuclide_hash made from element symbols (neutron number 255,      *)
(* "H" is 65281) and expands each such slot over all eligible isotopes of  *)
(* the element; 255 is the neutron number of no key of the nuclide table   *)
(* or of the element index.                                                *)
(***************************************************************************)
TableKeys ==
    Range(nuclids) \cup DOMAIN nuclid_mass \cup DOMAIN nuclid_abundance
        \cup DOMAIN nuclid_halflife
        \cup UNION {Range(element_isotopes[z]) : z \in DOMAIN element_isotopes}

C18_SentinelAccepted ==
    /\ (ret.status # "none" /\ arg.element_arr = create_nuclide_hash(<<"H">>).value) =>
          /\ ret.status = "ok"
          /\ \A h \in Range(element_isotopes[1]) :
                (\E c \in Charges : InInterval(nuclid_mass[h], c)) =>
                    \E k \in 1..Len(candidates) : candidates[k].isotope_vector = <<h>>
    /\ \A h \in TableKeys : hash_to_isotope(h)[2] # NEUTRON_NUMBER_FOR_ELEMENT

(***************************************************************************)
(* C19 as stated: building the nuclide table is all-or-nothing; when the   *)
(* half-life source fails for a lookup, the construction fails and no      *)
(* table, not a smaller one, is produced.                                  *)
(***************************************************************************)
IsotopeTable == UNION {{<<z, a>> : a \in DOMAIN isotopes[z]} : z \in atomic_numbers}

\* the isotopes for which rd.Nuclide raises
FailedLookups == IsotopeTable \ DOMAIN rd_half_life

C19_AllOrNothing == FailedLookups # {} => TableKeys = {}

(***************************************************************************)
(* C20: the nuclide table holds an isotope iff its half-life is known and  *)
(* is infinite or at least min_half_life; an isotope without half-life     *)
(* data is in no table of the builder, and no entry has a NaN half-life or *)
(* the unclear flag set.                                                   *)
(***************************************************************************)
Eligible(za) ==
    /\ za \in DOMAIN rd_half_life
    /\ \/ rd_half_life[za] = HL_INF
       \/ rd_half_life[za] >= parms.min_half_life

C20_TableMembership ==
    /\ \A za \in IsotopeTable :
          LET hashvalue == za[1] + 256 * (za[2] - za[1])
          IN /\ hashvalue \in Range(nuclids) <=> Eligible(za)
             /\ hashvalue \in Range(element_isotopes[za[1]]) <=> Eligible(za)
             /\ hashvalue \in DOMAIN nuclid_halflife <=> Eligible(za)
             /\ hashvalue \in DOMAIN nuclid_mass <=> Eligible(za)
    /\ TableKeys \subseteq {za[1] + 256 * (za[2] - za[1]) : za \in IsotopeTable}
    /\ \A hashvalue \in TableKeys :
          /\ nuclid_halflife[hashvalue] # HL_NAN
          /\ nuclid_unclear[hashvalue] = FALSE
          /\ nuclid_stable[hashvalue] <=> nuclid_halflife[hashvalue] = HL_INF

\* min_half_life of 1000 days: 99Tc is in the table, 7Be (53 days) and 4H
\* (no half-life data) are not
C20_Witness ==
    /\ parms.min_half_life = 1000
    /\ isotope_to_hash(43, 56) \in Range(nuclids)
    /\ nuclid_stable[isotope_to_hash(43, 56)] = FALSE
    /\ isotope_to_hash(4, 3) \notin Range(nuclids)
    /\ isotope_to_hash(1, 3) \notin Range(nuclids)
    /\ ret.status = "ok"

(***************************************************************************)
(* C21 as stated: min_abundance is applied per isotope when the element    *)
(* index is built: no isotope whose natural abundance is below             *)
(* min_abundance is in element_isotopes.                                   *)
(***************************************************************************)
\* abundance (percent) < min_abundance (fraction)
BelowMinAbundance(hashvalue) ==
    isotope_entry(hashvalue).composition * parms.min_abundance.den
        < 100 * parms.min_abundance.num

C21_MinAbundanceApplied ==
    \A z \in DOMAIN element_isotopes :
        \A hashvalue \in Range(element_isotopes[z]) : ~BelowMinAbundance(hashvalue)

(***************************************************************************)
(* C22: element_isotopes[p] holds exactly the table entries with proton    *)
(* count p, in strictly descending order of hash value (so without         *)
(* duplicates); get_element_isotopes(h) returns the list of the proton     *)
(* count of h whatever the neutron part of h is.                           *)
(***************************************************************************)
is_strictly_descending(s) == \A k \in 1..(Len(s) - 1) : s[k] > s[k + 1]

C22_ElementIndex ==
    /\ DOMAIN element_isotopes = atomic_numbers
    /\ \A z \in atomic_numbers :
          /\ Range(element_isotopes[z]) = {hashvalue \in TableKeys : hashvalue % 256 = z}
          /\ is_strictly_descending(element_isotopes[z])
    /\ (fin.fn = "get_element_isotopes" /\ fout.status = "ok") =>
          fout.value = element_isotopes[fin.args[1] % 256]
    /\ (fin.fn = "get_element_isotopes" /\ fout.status = "KeyError") =>
          fin.args[1] % 256 \notin atomic_numbers

\* the element index of chromium is asked for with the sentinel hash and
\* holds the four stable isotopes, largest hash first
C22_Witness ==
    /\ fin.fn = "get_element_isotopes"
    /\ fin.args[1] = isotope_to_hash(24, NEUTRON_NUMBER_FOR_ELEMENT)
    /\ parms.min_half_life = HL_INF
    /\ fout.status = "ok"
    /\ fout.value = <<isotope_to_hash(24, 30), isotope_to_hash(24, 29),
                      isotope_to_hash(24, 28), isotope_to_hash(24, 26)>>

(***************************************************************************)
(* C23: two candidates have the same unique_keyword exactly when they have *)
(* the same charge and the same isotopes up to their order; of the passing *)
(* candidates with one keyword only the first in enumeration order is      *)
(* kept, the kept ones stay in enumeration order, and the relevant list    *)
(* never holds two entries with the same isotope multiset and charge.      *)
(***************************************************************************)
Passing == {k \in 1..Len(candidates) : PassesThresholds(candidates[k])}

\* the first passing candidate that is the same ion as candidate k
FirstOccurrence(k) ==
    CHOOSE j \in Passing :
        /\ SameIon(candidates[j], candidates[k])
        /\ \A i \in Passing : SameIon(candidates[i], candidates[k]) => j <= i

C23_Deduplication ==
    /\ \A r, s \in 1..Len(relevant) :
          r # s => /\ relevant[r].keyword # relevant[s].keyword
                   /\ ~SameIon(relevant[r].cand, relevant[s].cand)
    /\ Resolved =>
          \A keyword \in {[k \in 1..Len(candidates) |-> unique_keyword(candidates[k])]} :
              /\ \A j, k \in 1..Len(candidates) :
                    keyword[j] = keyword[k] <=> SameIon(candidates[j], candidates[k])
              /\ \A first \in {{FirstOccurrence(k) : k \in Passing}} :
                    /\ Len(relevant) = Cardinality(first)
                    /\ \A r \in 1..Len(relevant) :
                          \E k \in first :
                              /\ relevant[r].cand = candidates[k]
                              /\ relevant[r].keyword = keyword[k]
                              /\ Cardinality({i \in first : i <= k}) = r

\* two passing candidates differ only in the order of their isotopes and
\* the relevant list holds the earlier one and not the later one
C23_Witness ==
    /\ Resolved
    /\ \E j, k \in Passing :
          /\ j < k
          /\ SameIon(candidates[j], candidates[k])
          /\ candidates[j].isotope_vector # candidates[k].isotope_vector
          /\ candidates[j] \in Range(RelevantCandidates)
          /\ candidates[k] \notin Range(RelevantCandidates)
    /\ \E j, k \in Passing : candidates[j].charge # candidates[k].charge

(***************************************************************************)
(* C24 as stated: every candidate's shortest_half_life is the minimum of   *)
(* the half-lives of the isotopes of its resolved composition, whatever    *)
(* the policy value min_half_life is; a candidate of observationally       *)
(* stable isotopes has an infinite shortest_half_life.                     *)
(***************************************************************************)
HalfLives(cand) == {nuclid_halflife[hashvalue] : hashvalue \in Range(cand.isotope_vector) \ {0}}

MinimumOf(S) == CHOOSE x \in S : \A y \in S : x <= y

C24_ShortestHalfLife ==
    \A k \in 1..Len(candidates) :
        candidates[k].shortest_half_life = MinimumOf(HalfLives(candidates[k]))

(***************************************************************************)
(* C25: every candidate's abundance_product is the product of the natural  *)
(* abundances of the isotopes of its resolved composition, one factor per  *)
(* atom, and the candidates of one isotope combination have the same       *)
(* abundance_product for all their charges.                                *)
(***************************************************************************)
\* product of the abundances (percent) of the atoms of s
RECURSIVE AbundanceProduct(_)
AbundanceProduct(s) ==
    IF s = <<>> THEN 1 ELSE nuclid_abundance[Head(s)] * AbundanceProduct(Tail(s))

RECURSIVE Power(_, _)
Power(base, n) == IF n = 0 THEN 1 ELSE base * Power(base, n - 1)

C25_AbundanceProduct ==
    /\ \A k \in 1..Len(candidates) :
          /\ candidates[k].abundance_product.num
                 = AbundanceProduct(candidates[k].isotope_vector)
          /\ candidates[k].abundance_product.den
                 = Power(100, Len(candidates[k].isotope_vector))
    /\ \A j, k \in 1..Len(candidates) :
          candidates[j].isotope_vector = candidates[k].isotope_vector
              => candidates[j].abundance_product = candidates[k].abundance_product

\* 17O 17O is a candidate with two charges: 1/100 enters twice
C25_Witness ==
    /\ \E j, k \in 1..Len(candidates) :
          /\ candidates[j].isotope_vector = <<isotope_to_hash(8, 9), isotope_to_hash(8, 9)>>
          /\ candidates[k].isotope_vector = candidates[j].isotope_vector
          /\ candidates[j].charge # candidates[k].charge
          /\ candidates[j].abundance_product = [num |-> 1, den |-> 10000]

(***************************************************************************)
(* C26: every candidate of the search has a charge in 1..7 and a resolved  *)
(* composition of exactly depth isotopes of the table, the i-th one an     *)
(* isotope of the element of composition slot i; charge 0 is no            *)
(* candidate's charge, raw or relevant, and the resolved charge state is   *)
(* in 0..7.                                                                *)
(***************************************************************************)
C26_CandidateShape ==
    /\ \A k \in 1..Len(candidates) : candidates[k].charge \in 1..APTMOLECULARION_MAX_CHARGE
    /\ \A r \in 1..Len(relevant) : relevant[r].cand.charge \in 1..APTMOLECULARION_MAX_CHARGE
    /\ \A j \in 1..Len(ret.relevant_candidates) :
          ret.relevant_candidates[j].charge \in 1..APTMOLECULARION_MAX_CHARGE
    /\ ret.charge \in 0..APTMOLECULARION_MAX_CHARGE
    /\ Resolved =>
          \A k \in 1..Len(candidates) :
              /\ Len(candidates[k].isotope_vector) = Depth
              /\ \A i \in 1..Depth :
                    /\ candidates[k].isotope_vector[i] \in SlotIsotopes(i)
                    /\ candidates[k].isotope_vector[i] \in Range(nuclids)
                    /\ candidates[k].isotope_vector[i] % 256 = arg.element_arr[i] % 256

\* a search over three slots whose relevant candidates all have charge 2
\* and which the resolver answers with charge state 0
C26_Witness ==
    /\ Resolved
    /\ Depth = 3
    /\ Len(candidates) > 1
    /\ relevant # <<>>
    /\ \A r \in 1..Len(relevant) : relevant[r].cand.charge = 2
    /\ ret.charge = 0

(***************************************************************************)
(* C27 as stated: what apply_combinatorics attaches to the ion is the      *)
(* resolved charge state and exactly the relevant candidates the resolver  *)
(* returned, not the raw candidates of the search: n_cand is the number of *)
(* relevant candidates and the attached rows are theirs.                   *)
(***************************************************************************)
\* add_charge_state_model has filled the charge state model of the ion
Applied == DOMAIN ion.charge_state_model # {}

\* the column of the charge state model under a key, as a list
Attached(key) ==
    IF key \notin DOMAIN ion.charge_state_model THEN <<>>
    ELSE IF ion.charge_state_model["n_cand"] = 1 THEN <<ion.charge_state_model[key]>>
    ELSE ion.charge_state_model[key]

C27_AttachedIsRelevant ==
    Applied =>
        /\ ion.charge_state = ret.charge
        /\ ion.charge_state_model["n_cand"] = Len(ret.relevant_candidates)
        /\ Attached("charge_state")
               = [r \in 1..Len(ret.relevant_candidates) |-> ret.relevant_candidates[r].charge]
        /\ Attached("mass")
               = [r \in 1..Len(ret.relevant_candidates) |-> ret.relevant_candidates[r].mass]

(***************************************************************************)
(* C28: a combinatorics call is read-only on the reference data: no step   *)
(* changes nuclids, element_isotopes, nuclid_mass, nuclid_abundance,       *)
(* nuclid_halflife or parms; a step changes at most candidates, relevant   *)
(* and the call's arguments and result.                                    *)
(***************************************************************************)
C28_ReadOnlyTables ==
    [][/\ nuclids' = nuclids
       /\ element_isotopes' = element_isotopes
       /\ nuclid_mass' = nuclid_mass
       /\ nuclid_abundance' = nuclid_abundance
       /\ nuclid_halflife' = nuclid_halflife
       /\ nuclid_stable' = nuclid_stable
       /\ nuclid_unclear' = nuclid_unclear
       /\ parms' = parms]_vars

\* a search has filled candidates and relevant and the tables are those of
\* the constructor
C28_Witness ==
    /\ Resolved
    /\ Len(candidates) > Len(relevant)
    /\ Len(relevant) > 1
    /\ nuclids = init_nuclids(parms.min_half_life)
    /\ element_isotopes = init_element_isotopes(parms.min_half_life)
    /\ nuclid_mass = init_nuclid_mass(parms.min_half_life)
    /\ parms.min_half_life = 1000

(***************************************************************************)
(* C29: apply_combinatorics resolves the charge against the first stored   *)
(* range only: the charge state, the name and the charge state model of an *)
(* ion with several ranges are those the call gives to an ion holding only *)
(* its first accepted range, whatever ranges were added later.             *)
(***************************************************************************)
\* the ion with its first accepted range alone
FirstRangeOnly == [ion EXCEPT !.ranges = <<ion.ranges[1]>>]

C29_FirstRangeOnly ==
    Applied =>
        \A single \in {apply_combinatorics(FirstRangeOnly)} :
            /\ ion.charge_state = single.self.charge_state
            /\ ion.name = single.self.name
            /\ ion.charge_state_model = single.self.charge_state_model
            /\ ret = single.crawler.ret
            /\ candidates = single.crawler.candidates

\* oxygen with the ranges [15, 17] and [0, 10] Da, in this order, right
\* after apply_combinatorics: charge state 1 from the first range, while the
\* second range alone leaves the charge state at 0
C29_Witness ==
    /\ ion.nuclide_hash = pad(<<isotope_to_hash(8, 0)>>)
    /\ ion.ranges = <<<<15000000, 17000000>>, <<0, 10000000>>>>
    /\ ion_raised = "AttributeError"
    /\ Applied
    /\ ion.charge_state = 1
    /\ ion.name = "O +"
    /\ apply_combinatorics([ion EXCEPT !.ranges = <<ion.ranges[2]>>]).self.charge_state = 0

(***************************************************************************)
(* C30 as stated: in the nuclide list and in the name of an ion every      *)
(* concrete nuclide stays distinguishable from its element: a hash with    *)
(* neutron number n # 255 has the mass number p + n in column 0 of its row *)
(* and the mass number before its symbol in the name; a hash with n = 255  *)
(* has mass number 0 and the bare symbol; 1H (hash 1) and the element      *)
(* hydrogen (hash 65281) differ in both.                                   *)
(***************************************************************************)
TokenMassNumber(hashvalue) ==
    IF hash_to_isotope(hashvalue)[2] # NEUTRON_NUMBER_FOR_ELEMENT
    THEN hash_to_isotope(hashvalue)[1] + hash_to_isotope(hashvalue)[2]
    ELSE 0

TokenLabel(hashvalue) ==
    IF hash_to_isotope(hashvalue)[2] # NEUTRON_NUMBER_FOR_ELEMENT
    THEN ToString(TokenMassNumber(hashvalue)) \o chemical_symbols[hash_to_isotope(hashvalue)[1]]
    ELSE chemical_symbols[hash_to_isotope(hashvalue)[1]]

\* the labels of the tokens, a space between two of them
RECURSIVE TokenLabels(_)
TokenLabels(s) ==
    IF Len(s) = 1 THEN TokenLabel(s[1])
    ELSE TokenLabel(Head(s)) \o " " \o TokenLabels(Tail(s))

C30_NuclideDistinctFromElement ==
    /\ \A idx \in 1..MAX_NUMBER_OF_ATOMS_PER_ION :
          ion.nuclide_hash[idx] # 0 =>
              ion.nuclide_list[idx] = <<TokenMassNumber(ion.nuclide_hash[idx]),
                                        hash_to_isotope(ion.nuclide_hash[idx])[1]>>
    /\ \A tokens \in {SelectSeq(ion.nuclide_hash, NonZero)} :
          tokens # <<>> =>
              ion.name = IF ion.charge_state > 0
                         THEN TokenLabels(tokens) \o " " \o repeat("+", ion.charge_state)
                         ELSE TokenLabels(tokens)

====
